---- MODULE Spec2Model ----
(***************************************************************************)
(* Model of filet (src/filet.c): the main loop, its key handlers, the      *)
(* terminal it draws on, the signal flags, the process bridge (spawn), the  *)
(* path buffer, the file system it lists and deletes from, and the files   *)
(* save_session writes.                                                    *)
(*                                                                         *)
(* Representation of C integers.  sel, y, n and every expression built     *)
(* from them are size_t (64 bit, unsigned).  A size_t value v is held as   *)
(* the integer congruent to v modulo 2^64 that lies in [-2^63, 2^63): a    *)
(* negative number stands for the wrapped value 2^64 + v.  Addition and    *)
(* subtraction are then exact, comparisons go through ULt/UGe, and the     *)
(* conversion to int of a value of small magnitude is the value itself.    *)
(*                                                                         *)
(* Representation of C strings.  A string is the sequence of its bytes     *)
(* (0..255) without the terminating NUL; path and the entry names are such *)
(* sequences, and strcat, strcmp and dirname work on the bytes.            *)
(***************************************************************************)
EXTENDS Integers, Sequences, FiniteSets, TLC

\* ------------------------------------------------------------------ bounds
MaxEnts == 3
MinRow == 4
MaxRow == 5

\* ------------------------------------------------------- program constants
ENT_ALLOC_NUM == 64
PATH_MAX == 4096
NAME_MAX == 255
SLASH == 47
DOT == 46

VARIABLES
    pc,               \* position of the engine process in main() / spawn()
    n,                \* size_t n: entries in the current snapshot
    ents,             \* the elements of the ents buffer written so far
    path,             \* char *path: the bytes before the terminating NUL
    sel,              \* size_t sel
    y,                \* size_t y: cursor row inside the scroll region
    row,              \* int row: terminal height as last queried
    fetch_dir,        \* bool fetch_dir
    show_hidden,      \* bool show_hidden
    g_needs_redraw,   \* volatile sig_atomic_t g_needs_redraw
    g_quit,           \* volatile sig_atomic_t g_quit
    opener,           \* TRUE iff FILET_OPENER is set
    home,             \* the string getenv_or("HOME", "/") returned
    libc,             \* the C library of the build: "glibc" | "musl"
    fs,               \* the file system: physical path |-> node
    filet_dir,        \* content of /tmp/filet_dir
    filet_sel,        \* content of /tmp/filet_sel
    termios_saved,    \* g_old_termios holds the captured attributes
    atexit_registered,\* atexit(restore_terminal) has been called
    session,          \* "Uninitialized" | "Active" | "Restored"
    tmode,            \* terminal driver mode: "cooked" | "raw"
    alt,              \* TRUE iff the terminal shows the alternate screen
    tty,              \* screen of the terminal: lines, cursor, scroll region
    termRows,         \* real height of the terminal (what TIOCGWINSZ reports)
    cpc,              \* position of the child created by spawn
    status,           \* int status of spawn
    pbuf              \* the engine's stdout buffer holds unflushed escapes

vars == <<pc, n, ents, path, sel, y, row, fetch_dir, show_hidden, g_needs_redraw,
          g_quit, opener, home, libc, fs, filet_dir, filet_sel, termios_saved,
          atexit_registered, session, tmode, alt, tty, termRows, cpc, status, pbuf>>

Rows == MinRow..MaxRow

\* ------------------------------------------------------ unsigned arithmetic
\* a < b on size_t
ULt(a, b) == IF (a >= 0) = (b >= 0) THEN a < b ELSE b < 0

\* a >= b on size_t
UGe(a, b) == ~ULt(a, b)

Min(a, b) == IF a < b THEN a ELSE b

\* ---------------------------------------------------------------- C strings
\* s[i] for a C index i; the byte after the last one is the terminating NUL
ByteAt(s, i) == IF i < Len(s) THEN s[i + 1] ELSE 0

\* strcmp: the difference of the first two bytes that differ, as unsigned char
strcmp(a, b) ==
    LET diff == {i \in 0..Min(Len(a), Len(b)) : ByteAt(a, i) # ByteAt(b, i)}
    IN IF diff = {} THEN 0
       ELSE LET i == CHOOSE k \in diff : \A j \in diff : k <= j
            IN ByteAt(a, i) - ByteAt(b, i)

strcat(dst, src) == dst \o src

\* the last '/' among the positions 1..upto of p, 0 when there is none
LastSlash(p, upto) ==
    LET S == {i \in 1..upto : p[i] = SLASH}
    IN IF S = {} THEN 0 ELSE CHOOSE i \in S : \A j \in S : j <= i

\* the last byte other than '/' among the positions 1..upto of p, or 0
LastOther(p, upto) ==
    LET S == {i \in 1..upto : p[i] # SLASH}
    IN IF S = {} THEN 0 ELSE CHOOSE i \in S : \A j \in S : j <= i

\* the position where the run of '/' that ends at position k begins
RunStart(p, k) ==
    CHOOSE j \in 1..k : (\A i \in j..k : p[i] = SLASH) /\ (j = 1 \/ p[j - 1] # SLASH)

\* What dirname(path) leaves in the buffer it is given.  POSIX lets dirname
\* change the buffer or return a string of its own; main ignores what is
\* returned.  glibc cuts the buffer at the last component, and leaves it
\* alone only when it holds no '/'.
dirname_glibc(p) ==
    LET last0 == LastSlash(p, Len(p))
        last1 == IF last0 # 0 /\ last0 # 1 /\ last0 = Len(p)
                 THEN LET runp == RunStart(p, last0)
                      IN IF runp # 1 THEN LastSlash(p, runp - 1) ELSE last0
                 ELSE last0
    IN IF last1 = 0 THEN p
       ELSE LET runp == RunStart(p, last1)
                cut == IF runp = 1 THEN (IF last1 = 2 THEN 3 ELSE 2) ELSE runp
            IN SubSeq(p, 1, cut - 1)

\* musl cuts the buffer only when a parent other than "/" or "." remains;
\* otherwise it returns a constant string and leaves the buffer alone.
dirname_musl(p) ==
    LET e == LastOther(p, Len(p))
        sl == IF e = 0 THEN 0 ELSE LastSlash(p, e)
        t == IF sl = 0 THEN 0 ELSE LastOther(p, sl)
    IN IF t = 0 THEN p ELSE SubSeq(p, 1, t)

dirname(lib, p) == IF lib = "musl" THEN dirname_musl(p) ELSE dirname_glibc(p)

\* ------------------------------------------------------------ file system
\* A physical path is the sequence of the names from the root.  The file
\* system maps each physical path that exists to a node
\*   [kind, to, r, pos]
\* kind: "d" directory, "f" regular file, "x" regular file with S_IXUSR,
\*       "l" symbolic link;  to: the physical path a link points to;
\* r: the directory can be opened;  pos: place in the order readdir uses.

\* the elements of a set of integers, ascending
Sorted(S) ==
    [k \in 1..Cardinality(S) |-> CHOOSE i \in S : Cardinality({j \in S : j < i}) = k - 1]

\* the components of a path string
Components(p) ==
    LET first == Sorted({i \in 1..Len(p) : p[i] # SLASH /\ (i = 1 \/ p[i - 1] = SLASH)})
        last == Sorted({i \in 1..Len(p) : p[i] # SLASH /\ (i = Len(p) \/ p[i + 1] = SLASH)})
    IN [k \in 1..Len(first) |-> SubSeq(p, first[k], last[k])]

\* path resolution from the directory at: where the walk ends, if it can
RECURSIVE Walk(_, _, _, _)
Walk(f, at, comps, follow) ==
    IF comps = << >> THEN [ok |-> TRUE, at |-> at]
    ELSE LET c == Append(at, Head(comps))
             rest == Tail(comps)
         IN IF f[at].kind # "d" \/ c \notin DOMAIN f THEN [ok |-> FALSE, at |-> at]
            ELSE IF f[c].kind = "l" /\ (rest # << >> \/ follow)
            THEN (IF f[c].to \in DOMAIN f
                  THEN Walk(f, f[c].to, rest, follow)
                  ELSE [ok |-> FALSE, at |-> c])
            ELSE Walk(f, c, rest, follow)

\* the directory an absolute path string names, if it can be opened
opendir(f, p) ==
    IF Len(p) = 0 \/ Len(p) >= PATH_MAX THEN [ok |-> FALSE, at |-> << >>]
    ELSE LET w == Walk(f, << >>, Components(p), TRUE)
         IN [ok |-> w.ok /\ f[w.at].kind = "d" /\ f[w.at].r, at |-> w.at]

Children(f, d) == {c \in DOMAIN f : Len(c) = Len(d) + 1 /\ SubSeq(c, 1, Len(d)) = d}

\* the names readdir returns for directory d, in its order
readdir(f, d) ==
    LET ch == Children(f, d)
        ps == Sorted({f[c].pos : c \in ch})
    IN << <<DOT>>, <<DOT, DOT>> >> \o
       [k \in 1..Len(ps) |-> LET c == CHOOSE c \in ch : f[c].pos = ps[k] IN c[Len(c)]]

\* ------------------------------------------------------------ the snapshot
\* lines 231-238: "." and "..", and the dot files unless show_hidden
Skipped(name, hidden) ==
    \/ ByteAt(name, 0) = DOT /\ (ByteAt(name, 1) = 0 \/
                                 (ByteAt(name, 1) = DOT /\ ByteAt(name, 2) = 0))
    \/ ~hidden /\ ByteAt(name, 0) = DOT

\* lines 258-273: the kind of the node c, from lstat and, for a link, stat
KindOf(f, c) ==
    IF f[c].kind = "d" THEN "TYPE_DIR"
    ELSE IF f[c].kind = "l"
    THEN (IF f[c].to \in DOMAIN f /\ f[f[c].to].kind = "d"
          THEN "TYPE_SYML_TO_DIR" ELSE "TYPE_SYML")
    ELSE IF f[c].kind = "x" THEN "TYPE_EXEC" ELSE "TYPE_NORM"

DirLike(ent) == ent.type \in {"TYPE_DIR", "TYPE_SYML_TO_DIR"}

direlemcmp_NamesOnly(a, b) == strcmp(a.name, b.name)

direlemcmp(a, b) ==
    IF DirLike(a) # DirLike(b)
    THEN (IF DirLike(a) THEN -1 ELSE 1)
    ELSE strcmp(a.name, b.name)

\* qsort with direlemcmp, as an insertion sort
RECURSIVE qsort(_)
qsort(es) ==
    IF es = << >> THEN es
    ELSE LET e == es[Len(es)]
             s == qsort(SubSeq(es, 1, Len(es) - 1))
             k == Cardinality({i \in 1..Len(s) : \A j \in 1..i : direlemcmp(s[j], e) <= 0})
         IN SubSeq(s, 1, k) \o <<e>> \o SubSeq(s, k + 1, Len(s))

\* the entries read_dir collects from the directory d, sorted
Listing(f, d, hidden) ==
    LET names == SelectSeq(readdir(f, d), LAMBDA nm : ~Skipped(nm, hidden))
    IN qsort([k \in 1..Len(names) |->
                [name |-> names[k], type |-> KindOf(f, Append(d, names[k])),
                 is_selected |-> FALSE]])

\* read_dir: the entry count and the ents buffer it leaves.  The entries
\* overwrite the front of the buffer; a directory that cannot be opened
\* gives 0 and leaves the buffer alone.
read_dir(f, p, es, hidden) ==
    LET dir == opendir(f, p)
        got == IF dir.ok THEN Listing(f, dir.at, hidden) ELSE << >>
    IN [n |-> Len(got), ents |-> got \o SubSeq(es, Len(got) + 1, Len(es))]

\* An element of the ents buffer nothing was written to yet.
StaleEnt == [name |-> << >>, type |-> "TYPE_NORM", is_selected |-> FALSE]

\* ents[i] for a C index i
EntAt(es, i) == IF (i + 1) \in DOMAIN es THEN es[i + 1] ELSE StaleEnt

\* the names a read of ents[i].name can give: what was written there, or
\* the indeterminate bytes of memory malloc returned
Uninit == {<< >>, <<63>>}

NameRead(es, i) == IF (i + 1) \in DOMAIN es THEN {es[i + 1].name} ELSE Uninit

\* ---------------------------------------------------------- the worlds
\* The i-th visible name of a directory: "a", "b", ...
Name(i) == <<96 + i>>

\* ".h"
HiddenName == <<DOT, 104>>

\* the directory k levels down the chain /a/a/...
Chain(k) == [i \in 1..k |-> Name(1)]

Node(kind, to, pos) == [kind |-> kind, to |-> to, r |-> TRUE, pos |-> pos]

\* A tree whose directory at depth d holds MaxEnts - d visible entries: the
\* first the directory of the next level, the others links and files in
\* turn; the last directory holds one hidden file.
ChainWorld ==
    LET entries == {<<d, i>> \in (0..MaxEnts) \X (1..MaxEnts) : i <= MaxEnts - d}
        At(d, i) == Append(Chain(d), Name(i))
        NodeOf(d, i) ==
            LET j == (i + 2 * d) % 4
            IN IF i = 1 THEN Node("d", << >>, -1)
               ELSE IF j = 2 THEN Node("l", At(d, 1), -i)
               ELSE IF j = 3 THEN Node("x", << >>, -i)
               ELSE IF j = 0 THEN Node("l", Append(Chain(d), HiddenName), -i)
               ELSE Node("f", << >>, -i)
        paths == {<< >>} \cup {At(e[1], e[2]) : e \in entries}
                         \cup {Append(Chain(MaxEnts), HiddenName)}
    IN [p \in paths |->
          IF p = << >> THEN Node("d", << >>, 0)
          ELSE IF p[Len(p)] = HiddenName THEN Node("f", << >>, 0)
          ELSE NodeOf(Len(p) - 1, p[Len(p)][1] - 96)]

\* ------------------------------------------------------------ the terminal
Blank == [color |-> "none", hl |-> FALSE, mk |-> FALSE, name |-> << >>]

Notice == [color |-> "31;7", hl |-> FALSE, mk |-> FALSE, name |-> << >>]

BlankLines == [r \in 1..(MaxRow + 1) |-> Blank]

\* ESC[2J
TermClear(t) == [t EXCEPT !.lines = BlankLines]

\* ESC[<r>H ; a row beyond the screen is clamped to the last row
TermCUP(t, h, r) ==
    [t EXCEPT !.cur = IF r < 1 /\ r >= 0 THEN 1 ELSE IF ULt(h, r) THEN h ELSE r]

\* ESC[<top>;<bot>r ; the cursor goes home
TermSTBM(t, h, top, bot) ==
    LET b == Min(bot, h) IN
    IF top < b THEN [t EXCEPT !.top = top, !.bot = b, !.cur = 1] ELSE t

\* "\n" with OPOST off: line feed, scrolling the region at its bottom margin
TermLF(t, h) ==
    IF t.cur = t.bot
    THEN [t EXCEPT !.lines = [r \in DOMAIN t.lines |->
                     IF r >= t.top /\ r < t.bot THEN t.lines[r + 1]
                     ELSE IF r = t.bot THEN Blank ELSE t.lines[r]]]
    ELSE IF t.cur < h THEN [t EXCEPT !.cur = t.cur + 1] ELSE t

\* ESC[A : cursor up, stopping at the top margin
TermCUU(t) ==
    IF t.cur = t.top \/ t.cur = 1 THEN t ELSE [t EXCEPT !.cur = t.cur - 1]

\* ESC[L : insert a blank line at the cursor, inside the scroll region
TermIL(t) ==
    IF t.cur >= t.top /\ t.cur <= t.bot
    THEN [t EXCEPT !.lines = [r \in DOMAIN t.lines |->
                     IF r > t.cur /\ r <= t.bot THEN t.lines[r - 1]
                     ELSE IF r = t.cur THEN Blank ELSE t.lines[r]]]
    ELSE t

\* text printed at the start of the cursor line
TermPrint(t, cell) == [t EXCEPT !.lines[t.cur] = cell]

\* the terminal changes its size: rows beyond the new height are lost and
\* the margins are reset to the whole screen
TermResize(t, h) ==
    [lines |-> [r \in DOMAIN t.lines |-> IF r > h THEN Blank ELSE t.lines[r]],
     cur |-> Min(t.cur, h), top |-> 1, bot |-> h]

\* ------------------------------------------------------------ draw_line
Color_DirLikeAlike(type) ==
    CASE type = "TYPE_DIR" -> "34;1"
      [] type = "TYPE_SYML" -> "36;1"
      [] type = "TYPE_SYML_TO_DIR" -> "34;1"
      [] type = "TYPE_EXEC" -> "32;1"
      [] OTHER -> "0"

Color(type) ==
    CASE type = "TYPE_DIR" -> "34;1"
      [] type = "TYPE_SYML" -> "36;1"
      [] type = "TYPE_SYML_TO_DIR" -> "36;1"
      [] type = "TYPE_EXEC" -> "32;1"
      [] OTHER -> "0"

\* The line draw_line prints.  Both forms cover the same columns, so one
\* drawn over the other leaves nothing behind.
Line(ent, is_sel) ==
    [color |-> Color(ent.type), hl |-> is_sel, mk |-> ent.is_selected,
     name |-> ent.name]

draw_line(t, ent, is_sel) == TermPrint(t, Line(ent, is_sel))

\* --------------------------------------------------------------- redraw
RECURSIVE RedrawRows(_, _, _, _, _, _, _, _)
RedrawRows(t, h, es, cnt, s, offset, rw, i) ==
    IF ULt(i, cnt) /\ ULt(i - offset, rw - 2)
    THEN RedrawRows(draw_line(TermLF(t, h), EntAt(es, i), i = s),
                    h, es, cnt, s, offset, rw, i + 1)
    ELSE t

redraw(t, h, es, cnt, s, offset, rw) ==
    LET t0 == TermCUP(TermClear(t), h, 1)
        t1 == TermSTBM(t0, h, 3, rw)
        t2 == TermLF(t1, h)
    IN IF cnt = 0
       THEN TermPrint(TermLF(t2, h), Notice)
       ELSE RedrawRows(t2, h, es, cnt, s, offset, rw, offset)

\* ------------------------------------------------------------ getkey
ESC == "\\033"

Inputs == {<<"h">>, <<"j">>, <<"k">>, <<"l">>, <<"\n">>, <<"g">>, <<"G">>,
           <<"m">>, <<"x">>, <<"e">>, <<"s">>, <<"q">>, <<"r">>, <<".">>,
           <<"~">>, <<"/">>, <<"z">>,
           <<ESC, "[", "A">>, <<ESC, "[", "B">>, <<ESC, "[", "C">>,
           <<ESC, "[", "D">>, <<ESC, "O">>, <<ESC, "[", "Z">>}

getkey(in) ==
    IF in[1] # ESC THEN in[1]
    ELSE IF in[2] # "[" THEN in[2]
    ELSE CASE in[3] = "A" -> "k"
           [] in[3] = "B" -> "j"
           [] in[3] = "C" -> "l"
           [] in[3] = "D" -> "h"
           [] OTHER -> in[3]

\* some input that getkey turns into k is read
Reads(k) == \E in \in Inputs : getkey(in) = k

\* the key is bound in neither switch of main
Unbound == {in \in Inputs : getkey(in) \notin
              {"h", "j", "k", "l", "\n", "g", "G", "m", "x", "e", "s", "q",
               "r", ".", "~", "/"}}

\* ------------------------------------------------------------------ Init
\* The working directory of the process, which getcwd copies into path:
\* the root, as a string and as a physical path.
Cwd == <<SLASH>>

CwdAt == << >>

FreshTty(h) == [lines |-> BlankLines, cur |-> 1, top |-> 1, bot |-> h]

InitCommon ==
    /\ pc = "get_termios"
    /\ n = 0
    /\ ents = << >>
    /\ path = Cwd
    /\ filet_dir = << >>
    /\ filet_sel = << >>
    /\ sel = 0
    /\ y = 0
    /\ termRows \in Rows
    /\ row = termRows
    /\ fetch_dir = TRUE
    /\ show_hidden = FALSE
    /\ g_needs_redraw = FALSE
    /\ g_quit = FALSE
    /\ termios_saved = FALSE
    /\ atexit_registered = FALSE
    /\ session = "Uninitialized"
    /\ tmode = "cooked"
    /\ alt = FALSE
    /\ tty = FreshTty(termRows)
    /\ cpc = "none"
    /\ status = "uninit"
    /\ pbuf = FALSE

Init ==
    /\ InitCommon
    /\ opener = FALSE
    /\ home = <<SLASH>>
    /\ libc = "glibc"
    /\ fs = ChainWorld

\* ------------------------------------------------- terminal mode changes
\* restore_terminal followed by the flush of its escape sequences; leaving
\* the alternate screen (ESC[?1049l) discards what was drawn on it
restore_terminal ==
    /\ session' = "Restored"
    /\ tmode' = "cooked"
    /\ alt' = FALSE
    /\ tty' = FreshTty(termRows)

\* setup_terminal when tcsetattr succeeds
setup_terminal(rw) ==
    /\ session' = "Active"
    /\ tmode' = "raw"
    /\ alt' = TRUE
    /\ tty' = TermSTBM(TermClear(tty), termRows, 3, rw)

\* exit(): the handlers registered with atexit run, then stdout is flushed;
\* the memory of the process is gone
exit ==
    /\ pc' = "exited"
    /\ n' = 0 /\ ents' = << >> /\ path' = << >> /\ sel' = 0 /\ y' = 0 /\ row' = 0
    /\ fetch_dir' = FALSE /\ show_hidden' = FALSE
    /\ g_needs_redraw' = FALSE /\ g_quit' = FALSE
    /\ IF atexit_registered
       THEN restore_terminal
       ELSE UNCHANGED <<session, tmode, alt, tty>>

navVars == <<n, ents, path, sel, y, row, fetch_dir, show_hidden>>
envVars == <<opener, home, libc>>
diskVars == <<fs, filet_dir, filet_sel>>
sigVars == <<g_needs_redraw, g_quit>>
ttyVars == <<session, tmode, alt, tty>>
procVars == <<cpc, status, pbuf>>

\* save_session(path, ents[i].name): each file is written when it can be
\* opened
save_session(p, es, i) ==
    \E nm \in NameRead(es, i), okd \in BOOLEAN, oks \in BOOLEAN :
        /\ filet_dir' = IF okd THEN p \o <<10>> ELSE filet_dir
        /\ filet_sel' = IF oks THEN p \o <<SLASH>> \o nm \o <<10>> ELSE filet_sel

\* ------------------------------------------------------------- startup
GetTermios ==
    /\ pc = "get_termios"
    /\ \E ok \in BOOLEAN :
         IF ok
         THEN /\ termios_saved' = TRUE
              /\ pc' = "setup_terminal"
              /\ UNCHANGED <<ttyVars, navVars, sigVars>>
         ELSE /\ exit
              /\ UNCHANGED termios_saved
    /\ UNCHANGED <<envVars, diskVars, atexit_registered, termRows, procVars>>

SetupTerminal ==
    /\ pc = "setup_terminal"
    /\ \E ok \in BOOLEAN :
         IF ok
         THEN /\ setup_terminal(row)
              /\ pc' = "atexit"
              /\ UNCHANGED <<navVars, sigVars>>
         ELSE exit
    /\ UNCHANGED <<envVars, diskVars, termios_saved, atexit_registered, termRows, procVars>>

RegisterAtexit ==
    /\ pc = "atexit"
    /\ atexit_registered' = TRUE
    /\ pc' = "loop"
    /\ UNCHANGED <<navVars, sigVars, envVars, diskVars, termios_saved, ttyVars, termRows,
                   procVars>>

\* ------------------------------------------------- top of the main loop
\* y after the scroll recomputation of a redraw
ScrollY(cnt, s, yy, rw) ==
    LET scroll_size == rw - 3
        empty_space == -(cnt - (s - yy + scroll_size))
    IN IF ULt(scroll_size, yy) THEN scroll_size
       ELSE IF empty_space > 0
            THEN (IF UGe(cnt, scroll_size) THEN yy + empty_space + 1 ELSE s)
            ELSE yy

NeedsRedraw_FetchOnly(fetch, flag) == fetch

\* lines 565-568: a fetch sets g_needs_redraw, which is then tested
NeedsRedraw(fetch, flag) == fetch \/ flag

LoopTop ==
    /\ pc = "loop"
    /\ IF g_quit
       THEN save_session(path, ents, sel) /\ exit
       ELSE LET rd == IF fetch_dir THEN read_dir(fs, path, ents, show_hidden)
                      ELSE [n |-> n, ents |-> ents]
                cnt == rd.n
            IN
            \E ok \in (IF fetch_dir \/ g_needs_redraw THEN BOOLEAN ELSE {TRUE}),
               nomem \in (IF fetch_dir /\ cnt > ENT_ALLOC_NUM THEN BOOLEAN ELSE {FALSE}) :
            IF nomem
            THEN exit /\ UNCHANGED <<filet_dir, filet_sel>>
            ELSE
            LET needs == NeedsRedraw(fetch_dir, g_needs_redraw)
                sel1 == IF fetch_dir THEN 0 ELSE sel
                y1 == IF fetch_dir THEN 0 ELSE y
                ents1 == rd.ents
                row1 == IF needs /\ ok THEN termRows ELSE row
                y2 == IF needs THEN ScrollY(cnt, sel1, y1, row1) ELSE y1
            IN /\ fetch_dir' = FALSE
               /\ sel' = sel1
               /\ n' = cnt
               /\ ents' = ents1
               /\ row' = row1
               /\ y' = y2
               /\ g_needs_redraw' = FALSE
               /\ tty' = IF needs
                         THEN TermCUP(redraw(tty, termRows, ents1, cnt, sel1,
                                             sel1 - y2, row1), termRows, y2 + 3)
                         ELSE tty
               /\ pc' = "getkey"
               /\ UNCHANGED <<path, show_hidden, g_quit, session, tmode, alt,
                              filet_dir, filet_sel>>
    /\ UNCHANGED <<envVars, fs, termios_saved, atexit_registered, termRows, procVars>>

\* getkey: getchar enters read(2) and blocks
EnterRead ==
    /\ pc = "getkey"
    /\ pc' = "read"
    /\ UNCHANGED <<navVars, sigVars, envVars, diskVars, termios_saved, atexit_registered,
                   ttyVars, termRows, procVars>>

\* ------------------------------------------------------- first switch
restVars == <<sigVars, envVars, diskVars, termios_saved, atexit_registered, termRows,
             procVars>>

Refetch ==
    /\ fetch_dir' = TRUE
    /\ pc' = "loop"
    /\ UNCHANGED <<n, ents, sel, y, row, ttyVars, restVars>>

KeyH ==
    /\ pc = "read" /\ Reads("h")
    /\ path' = dirname(libc, path)
    /\ Refetch /\ UNCHANGED show_hidden

KeyTilde ==
    /\ pc = "read" /\ Reads("~")
    /\ path' = home
    /\ Refetch /\ UNCHANGED show_hidden

KeySlash ==
    /\ pc = "read" /\ Reads("/")
    /\ path' = <<SLASH>>
    /\ Refetch /\ UNCHANGED show_hidden

KeyDot ==
    /\ pc = "read" /\ Reads(".")
    /\ Refetch /\ show_hidden' = ~show_hidden /\ UNCHANGED path

KeyR == pc = "read" /\ Reads("r") /\ Refetch /\ UNCHANGED <<show_hidden, path>>

KeyQ ==
    /\ pc = "read" /\ Reads("q")
    /\ save_session(path, ents, sel)
    /\ exit
    /\ UNCHANGED <<envVars, fs, termios_saved, atexit_registered, termRows, procVars>>

\* a key no case matches
KeyOther ==
    /\ pc = "read" /\ Unbound # {}
    /\ pc' = "loop"
    /\ UNCHANGED <<navVars, ttyVars, restVars>>

\* ------------------------------------------------------ second switch
NoEntries_Never(cnt) == FALSE

\* line 622: the commands of the second switch are skipped
NoEntries(cnt) == cnt = 0

CanMoveDown_UpToCount(s, cnt) == ULt(s, cnt)

\* line 628: sel < n - 1
CanMoveDown(s, cnt) == ULt(s, cnt - 1)

KeyJ ==
    /\ pc = "read" /\ Reads("j")
    /\ pc' = "loop"
    /\ IF ~NoEntries(n) /\ CanMoveDown(sel, n)
       THEN /\ sel' = sel + 1
            /\ y' = IF ULt(y, row - 3) THEN y + 1 ELSE y
            /\ tty' = draw_line(TermLF(draw_line(tty, EntAt(ents, sel), FALSE), termRows),
                                EntAt(ents, sel + 1), TRUE)
       ELSE UNCHANGED <<sel, y, tty>>
    /\ UNCHANGED <<n, ents, path, row, fetch_dir, show_hidden, session, tmode, alt, restVars>>

KeyK ==
    /\ pc = "read" /\ Reads("k")
    /\ pc' = "loop"
    /\ IF ~NoEntries(n) /\ sel # 0
       THEN /\ sel' = sel - 1
            /\ y' = IF y = 0 THEN y ELSE y - 1
            /\ tty' = LET t1 == draw_line(tty, EntAt(ents, sel), FALSE)
                          t2 == IF y = 0 THEN TermIL(t1) ELSE TermCUU(t1)
                      IN draw_line(t2, EntAt(ents, sel - 1), TRUE)
       ELSE UNCHANGED <<sel, y, tty>>
    /\ UNCHANGED <<n, ents, path, row, fetch_dir, show_hidden, session, tmode, alt, restVars>>

Key_g ==
    /\ pc = "read" /\ Reads("g")
    /\ pc' = "loop"
    /\ IF NoEntries(n) THEN UNCHANGED <<sel, y, tty>>
       ELSE IF sel - y = 0
       THEN /\ sel' = 0
            /\ y' = y
            /\ tty' = draw_line(TermCUP(draw_line(tty, EntAt(ents, sel), FALSE), termRows, 3),
                                EntAt(ents, 0), TRUE)
       ELSE /\ sel' = 0
            /\ y' = 0
            /\ tty' = TermCUP(redraw(tty, termRows, ents, n, 0, 0, row), termRows, 3)
    /\ UNCHANGED <<n, ents, path, row, fetch_dir, show_hidden, session, tmode, alt, restVars>>

Key_G ==
    /\ pc = "read" /\ Reads("G")
    /\ pc' = "loop"
    /\ IF NoEntries(n) THEN UNCHANGED <<sel, y, tty>>
       ELSE IF UGe(sel + row - 2 - y, n)
       THEN /\ sel' = n - 1
            /\ y' = row - 3
            /\ tty' = draw_line(TermCUP(draw_line(tty, EntAt(ents, sel), FALSE), termRows,
                                        2 + (IF ULt(n, row - 3) THEN n ELSE row)),
                                EntAt(ents, n - 1), TRUE)
       ELSE /\ sel' = n - 1
            /\ y' = row - 3
            /\ tty' = TermCUP(redraw(tty, termRows, ents, n, n - 1, n - (row - 2), row),
                              termRows, row)
    /\ UNCHANGED <<n, ents, path, row, fetch_dir, show_hidden, session, tmode, alt, restVars>>

KeyM ==
    /\ pc = "read" /\ Reads("m")
    /\ pc' = "loop"
    /\ IF NoEntries(n) THEN UNCHANGED <<ents, tty>>
       ELSE /\ ents' = [ents EXCEPT ![sel + 1].is_selected = ~@]
            /\ tty' = draw_line(tty, ents'[sel + 1], TRUE)
    /\ UNCHANGED <<n, path, sel, y, row, fetch_dir, show_hidden, session, tmode, alt, restVars>>

\* lines 659-662: the name is appended, after a '/' unless path is "/"
Descend(p, name) ==
    strcat(IF ByteAt(p, 1) # 0 THEN strcat(p, <<SLASH>>) ELSE p, name)

KeyL ==
    /\ pc = "read" /\ (Reads("l") \/ Reads("\n"))
    /\ IF NoEntries(n) THEN pc' = "loop" /\ UNCHANGED <<fetch_dir, path>>
       ELSE IF DirLike(EntAt(ents, sel))
       THEN /\ path' = Descend(path, EntAt(ents, sel).name)
            /\ pc' = "loop" /\ fetch_dir' = TRUE
       ELSE IF ~opener
       THEN pc' = "loop" /\ fetch_dir' = TRUE /\ UNCHANGED path
       ELSE cpc = "none" /\ pc' = "fork" /\ UNCHANGED <<fetch_dir, path>>
    /\ UNCHANGED <<n, ents, sel, y, row, show_hidden, ttyVars, restVars>>

\* the file system without the node c and what lies below it
RemoveTree(f, c) ==
    [q \in {q \in DOMAIN f : ~(Len(q) >= Len(c) /\ SubSeq(q, 1, Len(c)) = c)} |-> f[q]]

\* nftw(name, delete_file, 32, FTW_DEPTH | FTW_MOUNT | FTW_PHYS): the name
\* is relative, so the walk starts in the working directory of the process;
\* it removes the children before their directory and follows no link
nftw_delete(f, name) ==
    LET w == Walk(f, CwdAt, <<name>>, FALSE)
    IN IF w.ok /\ (f[w.at].r \/ Children(f, w.at) = {}) THEN RemoveTree(f, w.at) ELSE f

\* unlinkat(fd, name, 0), fd the directory at
unlinkat(f, at, name) ==
    LET c == Append(at, name)
    IN IF c \in DOMAIN f /\ f[c].kind # "d" THEN RemoveTree(f, c) ELSE f

\* lines 718-735 from index i on
RECURSIVE DeleteMarked(_, _, _, _, _)
DeleteMarked(f, at, es, cnt, i) ==
    IF ~ULt(i, cnt) THEN f
    ELSE LET e == EntAt(es, i)
             f1 == IF ~e.is_selected THEN f
                   ELSE IF e.type = "TYPE_DIR" THEN nftw_delete(f, e.name)
                   ELSE unlinkat(f, at, e.name)
         IN DeleteMarked(f1, at, es, cnt, i + 1)

KeyX ==
    /\ pc = "read" /\ Reads("x")
    /\ pc' = "loop"
    /\ LET fd == opendir(fs, path)
       IN IF ~NoEntries(n) /\ fd.ok
          THEN /\ fs' = DeleteMarked(fs, fd.at, ents, n, 0)
               /\ fetch_dir' = TRUE
          ELSE UNCHANGED <<fs, fetch_dir>>
    /\ UNCHANGED <<n, ents, path, sel, y, row, show_hidden, ttyVars, sigVars, envVars,
                   filet_dir, filet_sel, termios_saved, atexit_registered, termRows,
                   procVars>>

\* --------------------------------------------------------------- spawn
\* the callers of spawn in the first switch and in case 'e'
KeyS ==
    /\ pc = "read" /\ Reads("s")
    /\ cpc = "none"
    /\ save_session(path, ents, sel)
    /\ pc' = "fork"
    /\ UNCHANGED <<navVars, ttyVars, sigVars, envVars, fs, termios_saved,
                   atexit_registered, termRows, procVars>>

KeyE ==
    /\ pc = "read" /\ Reads("e")
    /\ IF NoEntries(n) THEN pc' = "loop" ELSE cpc = "none" /\ pc' = "fork"
    /\ UNCHANGED <<navVars, ttyVars, restVars>>

\* spawn returns to its caller, which sets fetch_dir and leaves the switch
SpawnReturn ==
    /\ pc' = "loop"
    /\ fetch_dir' = TRUE
    /\ UNCHANGED <<n, ents, path, sel, y, row, show_hidden>>

\* line 291: fork; status is a fresh, uninitialised local
Fork ==
    /\ pc = "fork"
    /\ \E ok \in BOOLEAN :
         IF ok
         THEN /\ pc' = "p_restore"
              /\ cpc' = "c_restore"
              /\ status' = "uninit"
              /\ UNCHANGED navVars
         ELSE /\ SpawnReturn
              /\ UNCHANGED <<cpc, status>>
    /\ UNCHANGED <<sigVars, envVars, diskVars, termios_saved, atexit_registered, ttyVars,
                   termRows, pbuf>>

\* line 297 in the parent: tcsetattr acts at once, the escapes are buffered
ParentRestore ==
    /\ pc = "p_restore"
    /\ tmode' = "cooked"
    /\ session' = "Restored"
    /\ pbuf' = TRUE
    /\ pc' = "p_fflush"
    /\ UNCHANGED <<navVars, sigVars, envVars, diskVars, termios_saved, atexit_registered,
                   alt, tty, termRows, cpc, status>>

\* line 298 in the parent: the escapes reach the terminal
ParentFlush ==
    /\ pc = "p_fflush"
    /\ alt' = FALSE
    /\ tty' = FreshTty(termRows)
    /\ pbuf' = FALSE
    /\ pc' = "waitpid"
    /\ UNCHANGED <<navVars, sigVars, envVars, diskVars, termios_saved, atexit_registered,
                   session, tmode, termRows, cpc, status>>

\* lines 308-310: waitpid reports a change of the child and the loop tests it
Waitpid ==
    /\ pc = "waitpid"
    /\ cpc \in {"exited", "signaled", "stopped_new"}
    /\ status' = IF cpc = "stopped_new" THEN "stopped" ELSE cpc
    /\ cpc' = IF cpc = "stopped_new" THEN "stopped" ELSE "none"
    /\ pc' = IF status' \in {"exited", "signaled"} THEN "p_setup" ELSE "waitpid"
    /\ UNCHANGED <<navVars, sigVars, envVars, diskVars, termios_saved, atexit_registered,
                   ttyVars, termRows, pbuf>>

\* line 313: setup_terminal, its result ignored
ParentSetup ==
    /\ pc = "p_setup"
    /\ \E ok \in BOOLEAN :
         IF ok THEN setup_terminal(row) ELSE UNCHANGED ttyVars
    /\ SpawnReturn
    /\ UNCHANGED <<restVars>>

\* lines 297-306 in the child
ChildRestore ==
    /\ cpc = "c_restore"
    /\ tmode' = "cooked"
    /\ cpc' = "c_fflush"
    /\ UNCHANGED <<pc, navVars, sigVars, envVars, diskVars, termios_saved, atexit_registered,
                   session, alt, tty, termRows, status, pbuf>>

ChildFlush ==
    /\ cpc = "c_fflush"
    /\ alt' = FALSE
    /\ tty' = FreshTty(termRows)
    /\ cpc' = "c_chdir"
    /\ UNCHANGED <<pc, navVars, sigVars, envVars, diskVars, termios_saved, atexit_registered,
                   session, tmode, termRows, status, pbuf>>

\* the child is gone: a zombie while spawn may still wait for it
Ended(how) == IF pc \in {"p_restore", "p_fflush", "waitpid"} THEN how ELSE "none"

ChildChdir ==
    /\ cpc = "c_chdir"
    /\ \E ok \in BOOLEAN : cpc' = IF ok THEN "c_exec" ELSE Ended("exited")
    /\ UNCHANGED <<pc, navVars, sigVars, envVars, diskVars, termios_saved, atexit_registered,
                   ttyVars, termRows, status, pbuf>>

ChildExec ==
    /\ cpc = "c_exec"
    /\ \E ok \in BOOLEAN : cpc' = IF ok THEN "running" ELSE Ended("exited")
    /\ UNCHANGED <<pc, navVars, sigVars, envVars, diskVars, termios_saved, atexit_registered,
                   ttyVars, termRows, status, pbuf>>

\* the program the child runs: it may take the terminal into its own mode,
\* be stopped and continued, exit, or be killed by a signal
ChildProgram ==
    /\ cpc \in {"running", "stopped_new", "stopped"}
    /\ \/ cpc = "running" /\ cpc' = "running" /\ tmode' = "raw"
       \/ cpc = "running" /\ cpc' = "stopped_new" /\ UNCHANGED tmode
       \/ cpc # "running" /\ cpc' = "running" /\ UNCHANGED tmode
       \/ cpc = "running" /\ cpc' = Ended("exited") /\ UNCHANGED tmode
       \/ cpc' = Ended("signaled") /\ UNCHANGED tmode
    /\ UNCHANGED <<pc, navVars, sigVars, envVars, diskVars, termios_saved, atexit_registered,
                   session, alt, tty, termRows, status, pbuf>>

\* ------------------------------------------------------------- signals
\* What the test of line 310 reads from status: an uninitialised status is
\* indeterminate.
StatusRead == IF status = "uninit" THEN {"exited", "signaled", "stopped"} ELSE {status}

\* Where a handled signal leaves the engine: a getchar blocked in read fails
\* with EINTR and getkey returns EOF, which no case matches; a blocked
\* waitpid fails with EINTR, status not written, and line 310 tests status.
Interrupted(st) ==
    IF pc = "read" THEN "loop"
    ELSE IF pc = "waitpid" /\ st \in {"exited", "signaled"} THEN "p_setup"
    ELSE pc

\* SIGWINCH: the terminal takes a new height and handle_winch runs
SigWinch ==
    /\ pc # "exited"
    /\ \E h \in Rows :
         /\ termRows' = h
         /\ tty' = TermResize(tty, h)
    /\ g_needs_redraw' = TRUE
    /\ \E st \in StatusRead : pc' = Interrupted(st)
    /\ UNCHANGED <<navVars, g_quit, envVars, diskVars, termios_saved, atexit_registered,
                   session, tmode, alt, procVars>>

\* SIGINT or SIGTERM: handle_exit runs
SigExit ==
    /\ pc # "exited"
    /\ g_quit' = TRUE
    /\ \E st \in StatusRead : pc' = Interrupted(st)
    /\ UNCHANGED <<navVars, g_needs_redraw, envVars, diskVars, termios_saved, atexit_registered,
                   ttyVars, termRows, procVars>>

NextSpawn ==
    \/ GetTermios \/ SetupTerminal \/ RegisterAtexit
    \/ LoopTop \/ EnterRead
    \/ KeyS \/ KeyE \/ KeyL \/ KeyQ
    \/ Fork \/ ParentRestore \/ ParentFlush \/ Waitpid \/ ParentSetup
    \/ ChildRestore \/ ChildFlush \/ ChildChdir \/ ChildExec \/ ChildProgram
    \/ SigWinch \/ SigExit

InitSpawn ==
    /\ InitCommon
    /\ opener = TRUE
    /\ home = <<SLASH>>
    /\ libc = "glibc"
    /\ fs = ChainWorld

SpecSpawn == InitSpawn /\ [][NextSpawn]_vars

Next ==
    \/ GetTermios \/ SetupTerminal \/ RegisterAtexit
    \/ LoopTop \/ EnterRead
    \/ KeyH \/ KeyTilde \/ KeySlash \/ KeyDot \/ KeyR \/ KeyQ \/ KeyOther
    \/ KeyJ \/ KeyK \/ Key_g \/ Key_G \/ KeyL
    \/ SigWinch \/ SigExit

Spec == Init /\ [][Next]_vars

\* Marking and deleting, on a terminal that keeps its size.
InitFs ==
    /\ InitCommon
    /\ termRows = MinRow
    /\ opener = FALSE
    /\ home = <<SLASH>>
    /\ libc = "glibc"
    /\ fs = ChainWorld

NextFs ==
    \/ GetTermios \/ SetupTerminal \/ RegisterAtexit
    \/ LoopTop \/ EnterRead
    \/ KeyH \/ KeyQ
    \/ KeyJ \/ KeyK \/ Key_g \/ Key_G \/ KeyM \/ KeyL \/ KeyX

SpecFs == InitFs /\ [][NextFs]_vars

\* Moving between directories, with every HOME and C library, on a terminal
\* that keeps its size.  HOME may be the root, a directory, a directory
\* written with a trailing '/', or a directory that does not exist; the
\* last directory of the chain may be closed to the user.
HomeSettings == {<<SLASH>>, <<SLASH, 97>>, <<SLASH, 97, SLASH>>, <<SLASH, 122>>}

LockedWorld == [ChainWorld EXCEPT ![Chain(MaxEnts)].r = FALSE]

InitPath ==
    /\ InitCommon
    /\ termRows = MinRow
    /\ opener = FALSE
    /\ home \in HomeSettings
    /\ libc \in {"glibc", "musl"}
    /\ fs \in {ChainWorld, LockedWorld}

NextPath ==
    \/ GetTermios \/ SetupTerminal \/ RegisterAtexit
    \/ LoopTop \/ EnterRead
    \/ KeyH \/ KeyTilde \/ KeySlash \/ KeyDot \/ KeyR \/ KeyQ
    \/ KeyJ \/ KeyL

SpecPath == InitPath /\ [][NextPath]_vars

\* Listing one directory, for every content it may have: up to MaxEnts of
\* the names ".b", "a" and "a" followed by the byte 200, each a directory,
\* a link to a directory, a link to nothing, an executable or another
\* regular file, in every order readdir may return them.
SortNames == {<<DOT, 98>>, <<97>>, <<97, 200>>}

SortKinds ==
    {<<"d", << >> >>, <<"l", << >> >>, <<"l", << <<122>> >> >>, <<"x", << >> >>, <<"f", << >> >>}

\* the directory / with the entries DOMAIN kinds
DirWorld(kinds, order) ==
    [p \in {<< >>} \cup {<<nm>> : nm \in DOMAIN kinds} |->
       IF p = << >> THEN Node("d", << >>, 0)
       ELSE Node(kinds[p[1]][1], kinds[p[1]][2], order[p[1]])]

DirWorlds ==
    UNION {{DirWorld(kinds, order) :
              kinds \in [S -> SortKinds],
              order \in {o \in [S -> 1..Cardinality(S)] :
                            \A a \in S, b \in S : o[a] = o[b] => a = b}} :
           S \in {T \in SUBSET SortNames : Cardinality(T) <= MaxEnts}}

InitSort ==
    /\ InitCommon
    /\ termRows = MinRow
    /\ opener = FALSE
    /\ home = <<SLASH>>
    /\ libc = "glibc"
    /\ fs \in DirWorlds

NextSort ==
    \/ GetTermios \/ SetupTerminal \/ RegisterAtexit
    \/ LoopTop \/ EnterRead
    \/ KeyDot \/ KeyR

SpecSort == InitSort /\ [][NextSort]_vars

\* Descending without end: the root holds a link to the root whose name has
\* the greatest length a name may have, and a regular file.
LongName == [i \in 1..NAME_MAX |-> 97]

DeepWorld ==
    [p \in {<< >>, <<LongName>>, <<Name(2)>>} |->
       IF p = << >> THEN Node("d", << >>, 0)
       ELSE IF p = <<LongName>> THEN Node("l", << >>, 1)
       ELSE Node("f", << >>, 2)]

InitDeep ==
    /\ InitCommon
    /\ opener = FALSE
    /\ home = <<SLASH>>
    /\ libc = "glibc"
    /\ fs = DeepWorld

NextDeep ==
    \/ GetTermios \/ SetupTerminal \/ RegisterAtexit
    \/ LoopTop \/ EnterRead
    \/ KeyH \/ KeyJ \/ KeyK \/ KeyL

SpecDeep == InitDeep /\ [][NextDeep]_vars

\* ================================================================ claims
InLoop == pc \in {"loop", "getkey", "read"}

\* no resize is waiting to be taken into account: the engine's row is the
\* height of the terminal and the redraw flag is clear
Settled == row = termRows /\ ~g_needs_redraw

\* what a full redraw of the state after the step puts on the screen
RedrawnLines == redraw(tty', termRows', ents', n', sel', sel' - y', row').lines

\* C1: whenever the snapshot is non-empty the selection lies inside the
\* visible window: y does not exceed sel, and with scroll_top = sel - y and
\* visible_rows = row - 2, scroll_top <= sel < scroll_top + visible_rows.
C1_SelectionInWindow ==
    (InLoop /\ n > 0) =>
        /\ ~ULt(sel, y)
        /\ ~ULt(sel, sel - y)
        /\ ULt(sel, (sel - y) + (row - 2))

\* C2: sel indexes an entry of the current snapshot whenever the snapshot is
\* non-empty, and is 0 whenever it is empty.
C2_SelInRange ==
    /\ n <= Len(ents)
    /\ n > 0 => (0 <= sel /\ sel < n /\ (sel + 1) \in DOMAIN ents)
    /\ n = 0 => sel = 0

C2_Witness == pc = "read" /\ n > 1 /\ sel = n - 1 /\ ~fetch_dir

\* C3: whenever the entries fit into the visible rows, scroll_top is 0.
C3_NoScrollWhenAllFit ==
    (InLoop /\ n > 0 /\ n <= row - 2) => sel - y = 0

\* C4: with more than row - 3 entries, G selects the last entry, bottom
\* aligns the window (scroll_top = n - visible_rows, not negative), and the
\* screen rows 3..row show the entries scroll_top .. n-1 with the last one
\* highlighted.
C4_GBottomAligned ==
    [][(Key_G /\ Settled /\ n > row - 3) =>
         LET top == n - (row - 2) IN
         /\ sel' = n - 1
         /\ sel' - y' = top
         /\ top >= 0
         /\ \A i \in 0..(row - 3) :
              tty'.lines[3 + i] = Line(EntAt(ents, top + i), top + i = n - 1)]_vars

\* C5: after a j or k that moves the selection, the screen equals what a
\* full redraw of the resulting state (ents, sel, sel - y, row) draws.
C5_IncrementalEqualsRedraw ==
    [][((KeyJ \/ KeyK) /\ Settled /\ sel' # sel) => tty'.lines = RedrawnLines]_vars

\* The screen is the one a full redraw of the state draws, with the cursor
\* on the selected row.
ScreenMatchesState ==
    /\ ~ULt(sel, y)
    /\ tty.lines = redraw(tty, termRows, ents, n, sel, sel - y, row).lines
    /\ tty.cur = y + 3 /\ tty.top = 3 /\ tty.bot = row

\* Where C5 does hold: from the states in which the screen matches the
\* state, a j or k leaves the screen equal to the full redraw again.
IncrementalKeepsScreen ==
    [][((KeyJ \/ KeyK) /\ Settled /\ sel' # sel /\ ScreenMatchesState) =>
         (tty'.lines = RedrawnLines /\ tty'.cur = y' + 3)]_vars

\* C6: once the terminal attributes were captured, the process does not
\* exit without restore_terminal having run.
C6_RestoredOnEveryExit ==
    (pc = "exited" /\ termios_saved) => session = "Restored"

\* C7: a termination signal never leaves the engine blocked in the read of
\* a key with the quit request pending, where only a further key press (or
\* another signal) would let it reach the exit.
C7_QuitNeverWaitsForKey == ~(pc = "read" /\ g_quit)

\* C8: the child process does not exist before the engine has restored the
\* terminal and flushed its output.
C8_RestoreFlushBeforeChild ==
    cpc # "none" => pc \notin {"p_restore", "p_fflush"}

\* C9: while the program of the child runs (from its exec to its end), the
\* engine neither changes the terminal attributes nor writes escapes.
C9_ParentPassiveWhileChildRuns ==
    [][(cpc \in {"running", "stopped_new", "stopped"}) =>
         ~(ParentRestore \/ ParentFlush \/ ParentSetup)]_vars

\* C10: spawn leaves its wait loop only after the child has exited or has
\* been killed by a signal.
C10_ReturnOnlyAfterChildEnded ==
    pc = "p_setup" => (cpc = "none" /\ status \in {"exited", "signaled"})

\* the names of the marked entries of the snapshot
MarkedNames == {EntAt(ents, i).name : i \in {i \in 0..(n - 1) : EntAt(ents, i).is_selected}}

\* the nodes of the browsed directory at that bear a marked name, and what
\* lies below them
MarkedTrees(at) ==
    {c \in DOMAIN fs : \E nm \in MarkedNames :
        Len(c) > Len(at) /\ SubSeq(c, 1, Len(at) + 1) = Append(at, nm)}

\* C11: x in the browsed directory removes exactly its marked entries,
\* directories with what they hold; every other file, in the directory and
\* outside it, stays as it was; the next snapshot has none of the removed
\* names.
C11_DeletesExactlyMarked ==
    [][(KeyX /\ n # 0 /\ opendir(fs, path).ok) =>
         LET at == opendir(fs, path).at
             after == read_dir(fs', path, ents, show_hidden)
         IN /\ DOMAIN fs' = DOMAIN fs \ MarkedTrees(at)
            /\ \A q \in DOMAIN fs' : fs'[q] = fs[q]
            /\ \A i \in 1..after.n : after.ents[i].name \notin MarkedNames]_vars

\* Where C11 does hold: while the browsed directory is the working directory
\* of the process.
DeletesMarkedInWorkingDir ==
    [][(KeyX /\ n # 0 /\ opendir(fs, path).ok /\ opendir(fs, path).at = CwdAt) =>
         /\ DOMAIN fs' = DOMAIN fs \ MarkedTrees(CwdAt)
         /\ \A q \in DOMAIN fs' : fs'[q] = fs[q]]_vars

\* C12: from every path the engine holds and every directory-like selected
\* entry, l followed by h gives the same path again, and the fetch that
\* follows a change of directory starts with selection and scroll at 0;
\* below the root the name is appended without a second separator.
C12_EnterThenBackRestoresPath ==
    [][/\ (KeyL /\ n # 0 /\ DirLike(EntAt(ents, sel))) =>
            /\ dirname(libc, path') = path
            /\ fetch_dir'
            /\ path = <<SLASH>> => path' = <<SLASH>> \o EntAt(ents, sel).name
       /\ (LoopTop /\ fetch_dir /\ pc' = "getkey") => (sel' = 0 /\ y' = 0)]_vars

\* Where C12 does hold: with glibc, from every path that does not end in
\* '/' after a name.
RoundTripFromCleanPath ==
    [][(KeyL /\ n # 0 /\ DirLike(EntAt(ents, sel)) /\ libc = "glibc"
           /\ (path = <<SLASH>> \/ path[Len(path)] # SLASH)) =>
         dirname(libc, path') = path]_vars

\* C13: on an empty snapshot each of j, k, l, Enter, g, G, m and x changes
\* neither the path, the selection, the scroll position, the marks nor the
\* hidden-file flag, asks for no fetch, starts no process and deletes
\* nothing; the redraw of an empty snapshot shows the notice and no entry.
C13_EmptySnapshotKeysDoNothing ==
    [][/\ ((KeyJ \/ KeyK \/ KeyL \/ Key_g \/ Key_G \/ KeyM \/ KeyX) /\ n = 0) =>
            /\ UNCHANGED <<path, sel, y, ents, show_hidden, fetch_dir, fs, cpc, tty>>
            /\ pc' = "loop"
       /\ (LoopTop /\ pc' = "getkey" /\ n' = 0 /\ (fetch_dir \/ g_needs_redraw)) =>
            tty'.lines = [BlankLines EXCEPT ![3] = Notice]]_vars

\* a key was handled while the snapshot was empty and the notice shown
C13_Witness ==
    /\ pc = "loop" /\ n = 0 /\ ~fetch_dir /\ ~g_quit
    /\ session = "Active" /\ tty.lines[3] = Notice

\* a <= b in the lexicographic order of the bytes
BytesLe(a, b) ==
    \E k \in 0..Len(a) :
        /\ \A i \in 1..k : i <= Len(b) /\ a[i] = b[i]
        /\ k = Len(a) \/ (k < Len(b) /\ a[k + 1] < b[k + 1])

\* C14: in the snapshot every directory-like entry comes before every other
\* entry, and among the directory-like entries, and among the others, the
\* names do not decrease byte-wise; whatever the directory holds and
\* whether hidden files are shown or not.
C14_SnapshotOrdered ==
    \A i \in 1..n, j \in 1..n :
        i < j =>
          /\ DirLike(ents[j]) => DirLike(ents[i])
          /\ DirLike(ents[i]) = DirLike(ents[j]) => BytesLe(ents[i].name, ents[j].name)

\* a snapshot with hidden files shown, of a directory that readdir returned
\* in another order: directory-like entries and others, a dot file and a
\* name with a byte above 127
C14_Witness ==
    /\ pc = "read" /\ show_hidden /\ n > 2
    /\ DirLike(ents[1]) /\ ~DirLike(ents[n])
    /\ \E i \in 1..n : ents[i].name[1] = DOT
    /\ \E i \in 1..n : ents[i].name[Len(ents[i].name)] > 127
    /\ \E i \in 1..n : fs[<<ents[i].name>>].pos # i

\* the screen rows that show an entry of the snapshot, each with the index
\* of the entry
EntryCells ==
    {c \in (DOMAIN tty.lines) \X (1..n) :
        /\ tty.lines[c[1]].color \notin {Blank.color, Notice.color}
        /\ tty.lines[c[1]].name = ents[c[2]].name}

\* two rows are drawn in one colour exactly when their entries fall into one
\* class of kinds, and a regular file is drawn in the default colour
ColourFollows(class(_)) ==
    \A c1 \in EntryCells, c2 \in EntryCells :
        LET k1 == ents[c1[2]].type
            k2 == ents[c2[2]].type
        IN /\ (tty.lines[c1[1]].color = tty.lines[c2[1]].color) <=> (class(k1) = class(k2))
           /\ k1 = "TYPE_NORM" => tty.lines[c1[1]].color = "0"

\* the classes of the claim: Directory with SymlinkToDirectory
ClaimedClass(type) ==
    IF type \in {"TYPE_DIR", "TYPE_SYML_TO_DIR"} THEN "directory-like" ELSE type

\* the classes of the code: Symlink with SymlinkToDirectory
LinkClass(type) ==
    IF type \in {"TYPE_SYML", "TYPE_SYML_TO_DIR"} THEN "link" ELSE type

\* C15 as stated: Directory and SymlinkToDirectory share one accent, Symlink
\* has another, Executable a third, Regular the default colour.
C15_ColourByKindAsClaimed == ColourFollows(ClaimedClass)

\* C15, amended: the colour depends only on the kind; Directory has one
\* accent, Symlink and SymlinkToDirectory share a second, Executable has a
\* third, Regular the default colour.
C15_ColourByKind == ColourFollows(LinkClass)

\* a link to a directory and a link to something else are on the screen
C15_Witness ==
    /\ pc = "read"
    /\ \E c1 \in EntryCells, c2 \in EntryCells :
         ents[c1[2]].type = "TYPE_SYML" /\ ents[c2[2]].type = "TYPE_SYML_TO_DIR"

\* C16: the handler of the resize signal only sets g_needs_redraw; the loop
\* iteration that begins with the flag set clears it, takes the height the
\* terminal reports (its old one when the query fails) and redraws the
\* whole screen for that height, before it goes on to read a key.
C16_ResizeRedrawnByNextIteration ==
    [][/\ SigWinch =>
            /\ g_needs_redraw'
            /\ UNCHANGED <<navVars, g_quit, session, tmode, alt, diskVars, procVars>>
            /\ tty' = TermResize(tty, termRows')
       /\ (LoopTop /\ g_needs_redraw /\ ~g_quit) =>
            /\ pc' = "getkey"
            /\ ~g_needs_redraw'
            /\ row' \in {termRows, row}
            /\ tty'.lines = RedrawnLines
            /\ tty'.top = 3 /\ tty'.bot = Min(row', termRows)]_vars

\* a resize to a taller terminal was taken into account: the window is
\* scrolled although all entries fit, which no key brings about
C16_Witness ==
    /\ pc = "getkey" /\ ~g_needs_redraw /\ row = termRows
    /\ sel - y > 0 /\ n <= row - 2
    /\ tty.top = 3 /\ tty.bot = row

\* the directory that holds the last component of p, as POSIX dirname
\* returns it
ParentPath(p) == dirname_glibc(p)

Unopenable == ~opendir(fs, path).ok

\* what C17 says of every key but h
UnopenableStillServed ==
    /\ (LoopTop /\ fetch_dir /\ ~g_quit /\ Unopenable) =>
         /\ pc' = "getkey" /\ n' = 0 /\ sel' = 0 /\ y' = 0
         /\ session' = session
         /\ tty'.lines = [BlankLines EXCEPT ![3] = Notice]
    /\ (pc = "read" /\ Unopenable) =>
         /\ n = 0 /\ sel = 0
         /\ ENABLED KeyH /\ ENABLED KeyTilde /\ ENABLED KeySlash /\ ENABLED KeyR
         /\ KeyTilde => (path' = home /\ fetch_dir' /\ pc' = "loop")
         /\ KeySlash => (path' = <<SLASH>> /\ fetch_dir' /\ pc' = "loop")
         /\ KeyR => (path' = path /\ fetch_dir' /\ pc' = "loop")
         /\ KeyH => (fetch_dir' /\ pc' = "loop")

\* C17: a fetch of a path that cannot be opened gives an empty snapshot with
\* selection 0 and leaves the engine running, and on that snapshot h, ~, /
\* and r are still served: h sets the path to its parent, ~ to the home
\* directory, / to the root, r keeps it, and each asks for a fetch.
C17_UnopenableDirectoryIsEmpty ==
    [][/\ UnopenableStillServed
       /\ (KeyH /\ Unopenable) => path' = ParentPath(path)]_vars

\* Where C17 does hold: everything it says but the path h leaves, which is
\* the one dirname leaves in the buffer.
UnopenableServedExceptParent ==
    [][/\ UnopenableStillServed
       /\ (KeyH /\ Unopenable) => path' = dirname(libc, path)]_vars

\* a key was served on the empty snapshot of a path that cannot be opened
UnopenableServed_Witness ==
    /\ pc = "getkey" /\ n = 0 /\ Unopenable /\ path # home
    /\ tty.lines[3] = Notice

\* the session is persisted: q, s, or a termination signal seen at line 555
Persist == KeyQ \/ KeyS \/ (LoopTop /\ g_quit)

\* the line save_session writes for the selected entry nm of directory p
SelLine(p, nm) == p \o <<SLASH>> \o nm \o <<10>>

\* C18: whenever the session is persisted and the selected-entry file is
\* written, it holds the path joined with the name of the entry at sel of
\* the snapshot, and on an empty snapshot it holds no entry name at all.
C18_PersistsSelectedEntry ==
    [][(Persist /\ filet_sel' # filet_sel) =>
         filet_sel' = SelLine(path, IF n = 0 THEN << >> ELSE EntAt(ents, sel).name)]_vars

\* Where C18 does hold: on a snapshot that has entries.
PersistsSelectedOfNonEmpty ==
    [][(Persist /\ n # 0 /\ filet_sel' # filet_sel) =>
         filet_sel' = SelLine(path, EntAt(ents, sel).name)]_vars

\* line 672 and line 687: g, respectively G, takes its in-place branch
InPlace_g == Key_g /\ n # 0 /\ sel - y = 0
InPlace_G == Key_G /\ n # 0 /\ UGe(sel + row - 2 - y, n)

\* the rows of the screen that show the entry named nm
RowsShowing(t, nm) == {r \in DOMAIN t.lines : t.lines[r].name = nm}

\* exactly one row is highlighted, it shows the entry at sel, and no entry
\* is on two rows
OneHighlightOnSelection(r) ==
    /\ {q \in DOMAIN tty'.lines : tty'.lines[q].hl} = {r}
    /\ tty'.lines[r] = Line(EntAt(ents, sel'), TRUE)
    /\ \A i \in 0..(n - 1) : Cardinality(RowsShowing(tty', EntAt(ents, i).name)) <= 1

\* C19: after the in-place branch of g or G, taken with no resize pending
\* and the screen showing the state, exactly one row is highlighted, it
\* shows the first (last) entry, which is the new selection, no entry is
\* displayed twice, and y is that row minus the first row of the region.
C19_InPlaceJumpKeepsScreen ==
    [][((InPlace_g \/ InPlace_G) /\ Settled /\ ScreenMatchesState) =>
         \E r \in 3..row :
            /\ sel' = IF Key_g THEN 0 ELSE n - 1
            /\ OneHighlightOnSelection(r)
            /\ y' = r - tty'.top]_vars

\* Where C19 does hold: the screen after the in-place branch of g.
InPlace_g_ScreenRight ==
    [][(InPlace_g /\ Settled /\ ScreenMatchesState) =>
         (sel' = 0 /\ OneHighlightOnSelection(3))]_vars

\* C20: the path with its terminating NUL fits the PATH_MAX bytes that
\* line 433 allocates for it.
C20_PathFitsBuffer == Len(path) + 1 <= PATH_MAX

\* Where C20 does hold: in the worlds whose names are short.
PathOfChainFits == Len(path) <= 2 * (MaxEnts + 1)

====
